---- MODULE Spec2Model ----
(***************************************************************************)
(* Audio-to-MIDI conversion service: the job-creation handler of main.py   *)
(* and the background job run_audio_to_midi_job of worker.py.              *)
(*                                                                         *)
(* Every submission s has its own handler coroutine and, once accepted,    *)
(* its own background task.  The event loop is single threaded, so a       *)
(* coroutine runs atomically from one await to the next: each action below *)
(* is the code executed between two awaits, and the answer of the awaited  *)
(* HTTP call (HEAD, POST, GET, PUT) or of the blocking call (mkdtemp,      *)
(* basic-pitch, rmtree) is an input of the environment.                    *)
(***************************************************************************)
EXTENDS Integers, Sequences, FiniteSets, TLC

\* ------------------------------------------------------------------ bounds
MaxSubs == 1        \* submissions to POST /process
MaxMidiLen == 2     \* byte length of a generated MIDI file: 1..MaxMidiLen

Subs == 1..MaxSubs
JobIds == {"j1", "j2"}
AudioLen == MaxMidiLen + 1   \* byte length of the downloaded audio
MidiLens == 1..MaxMidiLen

\* File names of the request metadata, as sequences of characters.
FileNames ==
    { <<"a", ".", "M", "P", "3">>,
      <<"a", ".", "t", "x", "t">>,
      <<"a">>,
      <<".", "w", "a", "v">>,
      <<"d", ".", "m", "p", "3", "/", "b">> }

\* ------------------------------------------------- pure helpers (pathlib, str)
\* str.lower() on one character.
LowerChar(c) ==
    CASE c = "A" -> "a" [] c = "M" -> "m" [] c = "P" -> "p"
      [] c = "W" -> "w" [] c = "V" -> "v" [] OTHER -> c

Lower(str) == [i \in 1..Len(str) |-> LowerChar(str[i])]

\* Largest index of character c in str, 0 when absent (str.rfind, 1-based).
RFind(str, c) ==
    LET hits == {i \in 1..Len(str) : str[i] = c}
    IN  IF hits = {} THEN 0 ELSE CHOOSE i \in hits : \A j \in hits : j <= i

\* PurePath.name: the final path component.
PathName(str) == SubSeq(str, RFind(str, "/") + 1, Len(str))

\* PurePath.suffix: the final component's last "."-part, empty when the only
\* dot is the leading one or the name ends with a dot.
PathSuffix(str) ==
    LET name == PathName(str)
        i == RFind(name, ".")
    IN  IF 1 < i /\ i < Len(name) THEN SubSeq(name, i, Len(name)) ELSE <<>>

SUPPORTED_AUDIO_FORMATS ==
    { <<".", "w", "a", "v">>, <<".", "m", "p", "3">>, <<".", "f", "l", "a", "c">>,
      <<".", "m", "4", "a">>, <<".", "o", "g", "g">>, <<".", "a", "a", "c">> }

\* httpx.Response.raise_for_status: anything but 2xx raises HTTPStatusError.
RaiseForStatus(status) ==
    IF 200 <= status /\ status <= 299 THEN "ok" ELSE "HTTPStatusError"

\* What awaiting an HTTP call yields: a network-level failure
\* (httpx.RequestError) or a response with a status code.
NoAnswer == [err |-> "unanswered", status |-> 0]
NetErr == [err |-> "RequestError", status |-> 0]
Answer(code) == [err |-> "none", status |-> code]
HeadAnswers == {NetErr} \cup {Answer(c) : c \in {200, 304, 404, 500}}
PostAnswers == {NetErr, Answer(200), Answer(500)}
GetAnswers == {NetErr, Answer(200), Answer(404)}
PutAnswers == {NetErr, Answer(200), Answer(403)}

\* Exception raised by `await client.xxx(...)` followed by raise_for_status(),
\* "ok" when neither raises.
HttpCall(ans) == IF ans.err # "none" THEN ans.err ELSE RaiseForStatus(ans.status)

\* ------------------------------------------------------------------- state
VARIABLES
    hpc,        \* hpc[s]: create_processing_job of submission s: "idle", "head"
                \*         (awaiting the HEAD answer), "returned"
    req,        \* req[s]: the ProcessingRequest (job_id, metadata.file_name)
    resp,       \* resp[s]: the HTTP response given to the submitter
    tasks,      \* tasks[s]: background tasks added by the handler of s
    jpc,        \* jpc[s]: position of run_audio_to_midi_job of s
    temp_dir,   \* temp_dir[s]: the local temp_dir, NoDir for None
    loc,        \* loc[s]: locals audio_file_path, midi_file_path, midi_file_size
    updates,    \* updates[s]: StatusUpdateRequest payloads created, in order,
                \*             each with the number of POSTs that carried it
    lost,       \* lost[s]: updates of s whose POST failed (the logged errors)
    stages,     \* stages[s]: the stages (download, convert, upload) the job
                \*            started, in order, each with how it ended
    calls,      \* calls[s]: external calls made by the job, in order
    head,       \* head[s]: the answer the handler of s got to its HEAD
    dirs,       \* directories existing under the system temp directory
    files       \* files existing in them: records [dir, name, len]

vars == <<hpc, req, resp, tasks, jpc, temp_dir, loc, updates, lost, stages, calls, head,
          dirs, files>>

NoDir == <<>>
NoPath == <<>>
NoReq == [jobId |-> "", fileName |-> <<>>]
NoResp == [code |-> 0, success |-> FALSE, jobId |-> "", error |-> ""]
NoLoc == [audio_file_path |-> NoPath, midi_file_path |-> NoPath, midi_file_size |-> 0]

Init ==
    /\ hpc = [s \in Subs |-> "idle"]
    /\ req = [s \in Subs |-> NoReq]
    /\ resp = [s \in Subs |-> NoResp]
    /\ tasks = [s \in Subs |-> 0]
    /\ jpc = [s \in Subs |-> "none"]
    /\ temp_dir = [s \in Subs |-> NoDir]
    /\ loc = [s \in Subs |-> NoLoc]
    /\ updates = [s \in Subs |-> <<>>]
    /\ lost = [s \in Subs |-> 0]
    /\ stages = [s \in Subs |-> <<>>]
    /\ calls = [s \in Subs |-> <<>>]
    /\ head = [s \in Subs |-> NoAnswer]
    /\ dirs = {}
    /\ files = {}

\* ------------------------------------------------------ main.py: the handler
\* SuccessResponse / ErrorResponse as rendered with their status code.
\* Variant: the acknowledgement leaves job_id out.
SuccessResponseNoId(job_id) ==
    [code |-> 202, success |-> TRUE, jobId |-> "", error |-> ""]

SuccessResponse(job_id) ==
    [code |-> 202, success |-> TRUE, jobId |-> job_id, error |-> ""]
ErrorResponse(code, error) ==
    [code |-> code, success |-> FALSE, jobId |-> "", error |-> error]

\* Variant: a network-level failure is only logged (as validate_midi_upload_url
\* of functionality.py does).
validate_url_logs_request_error(ans) ==
    LET e == HttpCall(ans)
    IN  IF e = "HTTPStatusError" THEN 400 ELSE 0

\* validate_url_is_accessible: the status code of the HTTPException it raises,
\* 0 when it returns normally.
validate_url_is_accessible(ans) ==
    LET e == HttpCall(ans)
    IN  IF e = "RequestError" THEN 400
        ELSE IF e = "HTTPStatusError" THEN 400
        ELSE 0

\* A submission arrives.  FastAPI validates the body against ProcessingRequest
\* (processing_type is Literal["AUDIO2MIDI"]); a body that fails is answered 422
\* by validation_exception_handler and the handler never runs.  Otherwise the
\* handler runs up to `await client.head(url)`.
ReceiveRequest(s, job_id, file_name, processing_type) ==
    /\ hpc[s] = "idle"
    /\ \A t \in Subs : t < s => hpc[t] # "idle"
    /\ IF processing_type = "AUDIO2MIDI"
       THEN /\ req' = [req EXCEPT ![s] = [jobId |-> job_id, fileName |-> file_name]]
            /\ hpc' = [hpc EXCEPT ![s] = "head"]
            /\ resp' = resp
       ELSE /\ req' = req
            /\ hpc' = [hpc EXCEPT ![s] = "returned"]
            /\ resp' = [resp EXCEPT ![s] = ErrorResponse(422, "VALIDATION_ERROR")]
    /\ UNCHANGED <<tasks, jpc, temp_dir, loc, updates, lost, stages, calls, head, dirs, files>>

\* Variant: the handler awaits run_audio_to_midi_job(request) itself instead of
\* adding it as a background task, so the job runs before any response.
create_processing_job_awaits(s, ans) ==
    /\ hpc[s] = "head"
    /\ LET rejected == validate_url_is_accessible(ans)
       IN  IF rejected # 0
           THEN /\ resp' = [resp EXCEPT ![s] = ErrorResponse(rejected, "INVALID_INPUT")]
                /\ hpc' = [hpc EXCEPT ![s] = "returned"]
                /\ UNCHANGED jpc
           ELSE /\ jpc' = [jpc EXCEPT ![s] = "queued"]
                /\ hpc' = [hpc EXCEPT ![s] = "job"]
                /\ UNCHANGED resp
    /\ head' = [head EXCEPT ![s] = ans]
    /\ UNCHANGED <<req, tasks, temp_dir, loc, updates, lost, stages, calls, dirs, files>>

\* Variant: the handler also checks the upload URL before accepting (as
\* validate_midi_upload_url of functionality.py does), so an unreachable or
\* rejecting output URL is answered 400.
create_processing_job_validates_output(s, ans) ==
    /\ hpc[s] = "head"
    /\ \E out \in HeadAnswers :
           LET rejected == IF validate_url_is_accessible(ans) # 0
                           THEN validate_url_is_accessible(ans)
                           ELSE validate_url_is_accessible(out)
           IN  IF rejected # 0
               THEN /\ resp' = [resp EXCEPT ![s] = ErrorResponse(rejected, "INVALID_INPUT")]
                    /\ UNCHANGED <<tasks, jpc>>
               ELSE /\ tasks' = [tasks EXCEPT ![s] = @ + 1]
                    /\ jpc' = [jpc EXCEPT ![s] = "queued"]
                    /\ resp' = [resp EXCEPT ![s] = SuccessResponse(req[s].jobId)]
    /\ hpc' = [hpc EXCEPT ![s] = "returned"]
    /\ head' = [head EXCEPT ![s] = ans]
    /\ UNCHANGED <<req, temp_dir, loc, updates, lost, stages, calls, dirs, files>>

\* create_processing_job from the HEAD answer to its return: an HTTPException
\* is rendered by http_exception_handler; otherwise the task is added and the
\* 202 is returned.  Starlette runs the added task after sending the response.
create_processing_job(s, ans) ==
    /\ hpc[s] = "head"
    /\ LET rejected == validate_url_is_accessible(ans)
       IN  IF rejected # 0
           THEN /\ resp' = [resp EXCEPT ![s] = ErrorResponse(rejected, "INVALID_INPUT")]
                /\ UNCHANGED <<tasks, jpc>>
           ELSE /\ tasks' = [tasks EXCEPT ![s] = @ + 1]
                /\ jpc' = [jpc EXCEPT ![s] = "queued"]
                /\ resp' = [resp EXCEPT ![s] = SuccessResponse(req[s].jobId)]
    /\ hpc' = [hpc EXCEPT ![s] = "returned"]
    /\ head' = [head EXCEPT ![s] = ans]
    /\ UNCHANGED <<req, temp_dir, loc, updates, lost, stages, calls, dirs, files>>

\* ---------------------------------------------- worker.py: status reporter
\* send_update: the StatusUpdateRequest it builds (user_id and file_id are
\* copied from the request and left out), handed to update_status_api, which
\* POSTs it; `posts` counts the POSTs of this payload.
\* Variant: the progress argument is not passed on to a processing update.
StatusUpdateRequestNoProgress(s, status, message, progress, size) ==
    [status |-> status, progress |-> IF status = "processing" THEN 0 ELSE progress,
     message |-> message, size |-> size, pythonJobId |-> req[s].jobId,
     posts |-> 1]

StatusUpdateRequest(s, status, message, progress, size) ==
    [status |-> status, progress |-> progress, message |-> message,
     size |-> size, pythonJobId |-> req[s].jobId,
     posts |-> 1]

NoSize == 0 - 1

send_update(upds, s, status, message, progress, size) ==
    [upds EXCEPT ![s] = Append(@, StatusUpdateRequest(s, status, message, progress, size))]

\* Variant: a failed delivery propagates to the caller.
update_status_api_raises(ans) ==
    LET e == HttpCall(ans)
    IN  IF e = "ok" THEN [raised |-> FALSE, logged |-> "info"]
        ELSE [raised |-> TRUE, logged |-> "error"]

\* update_status_api once the POST is answered: both except clauses log and
\* swallow, so it never raises.
update_status_api(ans) ==
    LET e == HttpCall(ans)
    IN  IF e = "ok" THEN [raised |-> FALSE, logged |-> "info"]
        ELSE IF e = "RequestError" THEN [raised |-> FALSE, logged |-> "error"]
        ELSE [raised |-> FALSE, logged |-> "error"]

\* The error log after the POST of the pending update of s is answered.
Logged(s, r) ==
    [lost EXCEPT ![s] = IF r.logged = "error" THEN @ + 1 ELSE @]

\* ------------------------------------------------------ worker.py: the job
\* An external call of the job: op is "mkdtemp", "GET", "predict_and_save", "PUT" or
\* "rmtree", res is "pending", "ok" or "raised", len the bytes a PUT carries.
Call(op, res, len) == [op |-> op, res |-> res, len |-> len]
Called(s, op, res, len) == [calls EXCEPT ![s] = Append(@, Call(op, res, len))]
\* The pending call of s (the last one) marked with its result.
CallEnded(s, res) == [calls EXCEPT ![s][Len(calls[s])].res = res]

\* A stage of the pipeline: res is "running", "ok" or "raised", exc the str(e)
\* of the exception it raised.
Stage(stage, res, exc) == [stage |-> stage, res |-> res, exc |-> exc]
Started(s, stage, res, exc) == [stages EXCEPT ![s] = Append(@, Stage(stage, res, exc))]
StageEnded(s, res, exc) ==
    [stages EXCEPT ![s][Len(stages[s])] = Stage(@.stage, res, exc)]

Path(dir, name) == <<dir, name>>
Exists(path) == \E f \in files : Path(f.dir, f.name) = path
GetSize(path) == (CHOOSE f \in files : Path(f.dir, f.name) = path).len
WriteFile(fs, path, len) ==
    {f \in fs : Path(f.dir, f.name) # path}
        \cup {[dir |-> path[1], name |-> path[2], len |-> len]}

\* str(e) of the exceptions the stages raise, as sequences of text pieces.
MsgOS == <<"OSError">>
MsgRequestError == <<"RequestError">>
MsgStatusError == <<"HTTPStatusError">>
MsgUnsupported(ext) == <<"Unsupported audio format: ">> \o ext
MsgNoMidi == <<"No MIDI file was generated by basic_pitch">>
MsgModel == <<"basic_pitch error">>
MsgConversion(inner) == <<"MIDI conversion failed: ">> \o inner
MsgCallback == <<"callback error">>
HttpMsg(e) == IF e = "RequestError" THEN MsgRequestError ELSE MsgStatusError

\* Variant: the failed update carries a fixed text instead of str(e).
ExceptGeneric(s, message) ==
    /\ updates' = send_update(updates, s, "failed", <<"Job failed">>, 0, NoSize)
    /\ jpc' = [jpc EXCEPT ![s] = "postF"]

\* The except clause of run_audio_to_midi_job: the failed update carrying
\* str(e) is created and its POST awaited.
Except(s, message) ==
    /\ updates' = send_update(updates, s, "failed", message, 0, NoSize)
    /\ jpc' = [jpc EXCEPT ![s] = "postF"]

\* Variant: the directory is named after the job alone.
MkdTempByJobId(job_id) == <<job_id, 0>>

\* tempfile.mkdtemp(prefix="job_<job_id>_"): a new directory under a name not
\* in use.  The random suffix is opaque to the program and does not repeat in
\* practice: the k-th directory made stands for it with suffix k.
MkdTemp(job_id) ==
    <<job_id, 1 + Cardinality({t \in DOMAIN temp_dir : temp_dir[t] # NoDir})>>

\* The background task starts: mkdtemp creates the directory or raises; then
\* the first update is created and its POST awaited.
StartJob(s, made) ==
    /\ jpc[s] = "queued"
    /\ IF made
       THEN /\ dirs' = dirs \cup {MkdTemp(req[s].jobId)}
            /\ temp_dir' = [temp_dir EXCEPT ![s] = MkdTemp(req[s].jobId)]
            /\ calls' = Called(s, "mkdtemp", "ok", 0)
            /\ updates' = send_update(updates, s, "processing",
                                      <<"Downloading audio file...">>, 10, NoSize)
            /\ jpc' = [jpc EXCEPT ![s] = "post10"]
       ELSE /\ calls' = Called(s, "mkdtemp", "raised", 0)
            /\ Except(s, MsgOS)
            /\ UNCHANGED <<dirs, temp_dir>>
    /\ UNCHANGED <<hpc, req, resp, tasks, loc, lost, stages, head, files>>

\* download_file up to `await client.get`: the extension check.
FileExtension(file_name) == Lower(PathSuffix(file_name))
\* Variant: no extension is rejected (download_audio_file of functionality.py).
UnsupportedNever(file_extension) == FALSE
Unsupported(file_extension) == file_extension \notin SUPPORTED_AUDIO_FORMATS
AudioFileName(ext) == <<"input_audio">> \o ext

Post10Returns(s, ans) ==
    /\ jpc[s] = "post10"
    /\ LET r == update_status_api(ans)
           file_extension == FileExtension(req[s].fileName)
       IN  /\ lost' = Logged(s, r)
           /\ IF r.raised
              THEN /\ Except(s, MsgCallback)
                   /\ UNCHANGED <<loc, stages, calls>>
              ELSE IF Unsupported(file_extension)
              THEN /\ stages' = Started(s, "download", "raised",
                                        MsgUnsupported(file_extension))
                   /\ Except(s, MsgUnsupported(file_extension))
                   /\ UNCHANGED <<loc, calls>>
              ELSE /\ stages' = Started(s, "download", "running", <<>>)
                   /\ loc' = [loc EXCEPT ![s].audio_file_path =
                                  Path(temp_dir[s], AudioFileName(file_extension))]
                   /\ calls' = Called(s, "GET", "pending", 0)
                   /\ jpc' = [jpc EXCEPT ![s] = "get"]
                   /\ UNCHANGED updates
    /\ UNCHANGED <<hpc, req, resp, tasks, temp_dir, head, dirs, files>>

\* Variant: a failed GET is issued again.
GetReturnsRetry(s, ans) ==
    /\ jpc[s] = "get"
    /\ HttpCall(ans) # "ok"
    /\ Len(calls[s]) < 4
    /\ calls' = [calls EXCEPT ![s] =
                     Append([@ EXCEPT ![Len(@)].res = "raised"], Call("GET", "pending", 0))]
    /\ UNCHANGED <<hpc, req, resp, tasks, jpc, temp_dir, loc, updates, lost, stages, head,
                   dirs, files>>

\* download_file from the GET answer: raise_for_status, then the content is
\* written to audio_file_path; then the second update.
GetReturns(s, ans) ==
    /\ jpc[s] = "get"
    /\ LET e == HttpCall(ans)
       IN  IF e # "ok"
           THEN /\ calls' = CallEnded(s, "raised")
                /\ stages' = StageEnded(s, "raised", HttpMsg(e))
                /\ Except(s, HttpMsg(e))
                /\ UNCHANGED files
           ELSE IF temp_dir[s] \notin dirs
           THEN /\ calls' = CallEnded(s, "ok")
                /\ stages' = StageEnded(s, "raised", MsgOS)
                /\ Except(s, MsgOS)
                /\ UNCHANGED files
           ELSE /\ files' = WriteFile(files, loc[s].audio_file_path, AudioLen)
                /\ calls' = CallEnded(s, "ok")
                /\ stages' = StageEnded(s, "ok", <<>>)
                /\ updates' = send_update(updates, s, "processing",
                                          <<"Converting audio to MIDI...">>, 50, NoSize)
                /\ jpc' = [jpc EXCEPT ![s] = "post50"]
    /\ UNCHANGED <<hpc, req, resp, tasks, temp_dir, loc, lost, head, dirs>>

\* convert_to_midi, run right after the second update's POST is answered (no
\* await in between): predict_and_save raises, writes no .mid file, or writes
\* one of midi_len bytes under midi_output; every exception is re-raised as
\* Exception("MIDI conversion failed: ...").  Then the third update.
MidiFileName == <<"midi_output", "input_audio_basic_pitch.mid">>

Post50Returns(s, ans, outcome, midi_len) ==
    /\ jpc[s] = "post50"
    /\ LET r == update_status_api(ans)
       IN  /\ lost' = Logged(s, r)
           /\ IF r.raised
              THEN /\ Except(s, MsgCallback)
                   /\ outcome = "midi" /\ midi_len = 1
                   /\ UNCHANGED <<loc, stages, calls, files>>
              ELSE IF outcome = "raises" \/ ~Exists(loc[s].audio_file_path)
              THEN /\ midi_len = 1
                   /\ calls' = Called(s, "predict_and_save", "raised", 0)
                   /\ stages' = Started(s, "convert", "raised", MsgConversion(MsgModel))
                   /\ Except(s, MsgConversion(MsgModel))
                   /\ UNCHANGED <<loc, files>>
              ELSE IF outcome = "nothing"
              THEN /\ midi_len = 1
                   /\ calls' = Called(s, "predict_and_save", "ok", 0)
                   /\ stages' = Started(s, "convert", "raised", MsgConversion(MsgNoMidi))
                   /\ Except(s, MsgConversion(MsgNoMidi))
                   /\ UNCHANGED <<loc, files>>
              ELSE /\ files' = WriteFile(files, Path(temp_dir[s], MidiFileName), midi_len)
                   /\ loc' = [loc EXCEPT ![s].midi_file_path =
                                  Path(temp_dir[s], MidiFileName)]
                   /\ calls' = Called(s, "predict_and_save", "ok", 0)
                   /\ stages' = Started(s, "convert", "ok", <<>>)
                   /\ updates' = send_update(updates, s, "processing",
                                     <<"Uploading converted MIDI file...">>, 90, NoSize)
                   /\ jpc' = [jpc EXCEPT ![s] = "post90"]
    /\ UNCHANGED <<hpc, req, resp, tasks, temp_dir, head, dirs>>

\* After the third update: os.path.getsize(midi_file_path), then upload_file
\* reads the file and PUTs its content to the output URL.
\* Variant: the size is taken of the downloaded audio.
MidiFileSizeOfAudio(s) == GetSize(loc[s].audio_file_path)
MidiFileSize(s) == GetSize(loc[s].midi_file_path)
UploadContentLen(file_path) == GetSize(file_path)

Post90Returns(s, ans) ==
    /\ jpc[s] = "post90"
    /\ LET r == update_status_api(ans)
       IN  /\ lost' = Logged(s, r)
           /\ IF r.raised
              THEN /\ Except(s, MsgCallback)
                   /\ UNCHANGED <<loc, stages, calls>>
              ELSE IF ~Exists(loc[s].midi_file_path)
              THEN /\ Except(s, MsgOS)
                   /\ UNCHANGED <<loc, stages, calls>>
              ELSE /\ loc' = [loc EXCEPT ![s].midi_file_size = MidiFileSize(s)]
                   /\ stages' = Started(s, "upload", "running", <<>>)
                   /\ calls' = Called(s, "PUT", "pending",
                                      UploadContentLen(loc[s].midi_file_path))
                   /\ jpc' = [jpc EXCEPT ![s] = "put"]
                   /\ UNCHANGED updates
    /\ UNCHANGED <<hpc, req, resp, tasks, temp_dir, head, dirs, files>>

\* Variant: a failed upload is reported with the progress last reached.
PutReturnsKeepsProgress(s, ans) ==
    /\ jpc[s] = "put"
    /\ LET e == HttpCall(ans)
       IN  IF e # "ok"
           THEN /\ calls' = CallEnded(s, "raised")
                /\ stages' = StageEnded(s, "raised", HttpMsg(e))
                /\ updates' = send_update(updates, s, "failed", HttpMsg(e), 90, NoSize)
                /\ jpc' = [jpc EXCEPT ![s] = "postF"]
           ELSE /\ calls' = CallEnded(s, "ok")
                /\ stages' = StageEnded(s, "ok", <<>>)
                /\ updates' = send_update(updates, s, "completed",
                                          <<"Processing completed successfully.">>,
                                          100, loc[s].midi_file_size)
                /\ jpc' = [jpc EXCEPT ![s] = "postC"]
    /\ UNCHANGED <<hpc, req, resp, tasks, temp_dir, loc, lost, head, dirs, files>>

\* upload_file from the PUT answer (raise_for_status), then the completed
\* update with size=midi_file_size.
PutReturns(s, ans) ==
    /\ jpc[s] = "put"
    /\ LET e == HttpCall(ans)
       IN  IF e # "ok"
           THEN /\ calls' = CallEnded(s, "raised")
                /\ stages' = StageEnded(s, "raised", HttpMsg(e))
                /\ Except(s, HttpMsg(e))
           ELSE /\ calls' = CallEnded(s, "ok")
                /\ stages' = StageEnded(s, "ok", <<>>)
                /\ updates' = send_update(updates, s, "completed",
                                          <<"Processing completed successfully.">>,
                                          100, loc[s].midi_file_size)
                /\ jpc' = [jpc EXCEPT ![s] = "postC"]
    /\ UNCHANGED <<hpc, req, resp, tasks, temp_dir, loc, lost, head, dirs, files>>

\* Variant: no cleanup.
FinallyNothing(s, removed) ==
    /\ removed
    /\ UNCHANGED <<dirs, files, calls>>

\* The finally clause: shutil.rmtree(temp_dir) when temp_dir is set and exists;
\* rmtree removes the tree, or raises, which is logged as a warning and
\* swallowed (the directory is then still there).
Finally(s, removed) ==
    IF temp_dir[s] # NoDir /\ temp_dir[s] \in dirs
    THEN IF removed
         THEN /\ dirs' = dirs \ {temp_dir[s]}
              /\ files' = {f \in files : f.dir # temp_dir[s]}
              /\ calls' = Called(s, "rmtree", "ok", 0)
         ELSE /\ calls' = Called(s, "rmtree", "raised", 0)
              /\ UNCHANGED <<dirs, files>>
    ELSE /\ removed
         /\ UNCHANGED <<dirs, files, calls>>

\* Variant: only the success path reaches the end of the task.
TerminalPostReturnsCompletedOnly(s, ans, removed) ==
    /\ jpc[s] = "postC"
    /\ lost' = Logged(s, update_status_api(ans))
    /\ jpc' = [jpc EXCEPT ![s] = "done"]
    /\ Finally(s, removed)
    /\ UNCHANGED <<hpc, req, resp, tasks, temp_dir, loc, updates, stages, head>>

\* The POST of a terminal update (completed or failed) is answered: the try or
\* except block ends, finally runs, the task is over.  Were the POST of the
\* completed update to raise, the except clause would run.
TerminalPostReturns(s, ans, removed) ==
    /\ jpc[s] \in {"postC", "postF"}
    /\ LET r == update_status_api(ans)
       IN  /\ lost' = Logged(s, r)
           /\ IF r.raised /\ jpc[s] = "postC"
              THEN /\ Except(s, MsgCallback)
                   /\ removed
                   /\ UNCHANGED <<dirs, files, calls>>
              ELSE /\ jpc' = [jpc EXCEPT ![s] = "done"]
                   /\ Finally(s, removed)
                   /\ UNCHANGED updates
    /\ UNCHANGED <<hpc, req, resp, tasks, temp_dir, loc, stages, head>>

\* Job identifiers are opaque and interchangeable: submission s uses one of
\* the first s of them (a repeated one, or the next fresh one).
IdsFor(s) == {j \in JobIds : \E k \in 1..s : j = <<"j1", "j2", "j3">>[k]}

\* --------------------------------------------------------- specification
Next ==
    \/ \E s \in Subs : \E j \in IdsFor(s), f \in FileNames, t \in {"AUDIO2MIDI", "OTHER"} :
           ReceiveRequest(s, j, f, t)
    \/ \E s \in Subs, ans \in HeadAnswers : create_processing_job(s, ans)
    \/ \E s \in Subs, made \in BOOLEAN : StartJob(s, made)
    \/ \E s \in Subs, ans \in PostAnswers : Post10Returns(s, ans)
    \/ \E s \in Subs, ans \in GetAnswers : GetReturns(s, ans)
    \/ \E s \in Subs, ans \in PostAnswers, o \in {"midi", "nothing", "raises"},
          n \in MidiLens : Post50Returns(s, ans, o, n)
    \/ \E s \in Subs, ans \in PostAnswers : Post90Returns(s, ans)
    \/ \E s \in Subs, ans \in PutAnswers : PutReturns(s, ans)
    \/ \E s \in Subs, ans \in PostAnswers, removed \in BOOLEAN :
           TerminalPostReturns(s, ans, removed)

Spec == Init /\ [][Next]_vars

\* A step of the background task of s.  The event loop runs every task that
\* was added, and every awaited call returns or raises (each httpx call has a
\* timeout), so while some task can take a step the loop eventually runs one.
JobStep(s) ==
    \/ \E made \in BOOLEAN : StartJob(s, made)
    \/ \E ans \in PostAnswers : Post10Returns(s, ans)
    \/ \E ans \in GetAnswers : GetReturns(s, ans)
    \/ \E ans \in PostAnswers, o \in {"midi", "nothing", "raises"}, n \in MidiLens :
           Post50Returns(s, ans, o, n)
    \/ \E ans \in PostAnswers : Post90Returns(s, ans)
    \/ \E ans \in PutAnswers : PutReturns(s, ans)
    \/ \E ans \in PostAnswers, removed \in BOOLEAN : TerminalPostReturns(s, ans, removed)

SpecFair == Spec /\ WF_vars(\E s \in Subs : JobStep(s))

\* Two submissions, whatever the number of submissions of Spec: the two jobs
\* run concurrently in the same process and may carry the same job_id.
Pair == {1, 2}

InitPair ==
    /\ hpc = [s \in Pair |-> "idle"]
    /\ req = [s \in Pair |-> NoReq]
    /\ resp = [s \in Pair |-> NoResp]
    /\ tasks = [s \in Pair |-> 0]
    /\ jpc = [s \in Pair |-> "none"]
    /\ temp_dir = [s \in Pair |-> NoDir]
    /\ loc = [s \in Pair |-> NoLoc]
    /\ updates = [s \in Pair |-> <<>>]
    /\ lost = [s \in Pair |-> 0]
    /\ stages = [s \in Pair |-> <<>>]
    /\ calls = [s \in Pair |-> <<>>]
    /\ head = [s \in Pair |-> NoAnswer]
    /\ dirs = {}
    /\ files = {}

NextPair ==
    \/ \E s \in Pair : \E j \in IdsFor(s), f \in FileNames, t \in {"AUDIO2MIDI", "OTHER"} :
           ReceiveRequest(s, j, f, t)
    \/ \E s \in Pair, ans \in HeadAnswers : create_processing_job(s, ans)
    \/ \E s \in Pair, made \in BOOLEAN : StartJob(s, made)
    \/ \E s \in Pair, ans \in PostAnswers : Post10Returns(s, ans)
    \/ \E s \in Pair, ans \in GetAnswers : GetReturns(s, ans)
    \/ \E s \in Pair, ans \in PostAnswers, o \in {"midi", "nothing", "raises"},
          n \in MidiLens : Post50Returns(s, ans, o, n)
    \/ \E s \in Pair, ans \in PostAnswers : Post90Returns(s, ans)
    \/ \E s \in Pair, ans \in PutAnswers : PutReturns(s, ans)
    \/ \E s \in Pair, ans \in PostAnswers, removed \in BOOLEAN :
           TerminalPostReturns(s, ans, removed)

SpecPair == InitPair /\ [][NextPair]_vars

\* ------------------------------------------------------------ properties
\* Indices of the updates of s with the given status, of its calls of the
\* given kind, and the result of a stage ("none" when it never started).
Sent(s, status) == {i \in DOMAIN updates[s] : updates[s][i].status = status}
TerminalSent(s) == Sent(s, "completed") \cup Sent(s, "failed")
CallsOf(s, op) == {i \in DOMAIN calls[s] : calls[s][i].op = op}
CallRaised(s, op) == \E i \in CallsOf(s, op) : calls[s][i].res = "raised"
StageRes(s, stage) ==
    IF \E i \in DOMAIN stages[s] : stages[s][i].stage = stage
    THEN stages[s][CHOOSE i \in DOMAIN stages[s] : stages[s][i].stage = stage].res
    ELSE "none"
SomeStageRaised(s) == \E i \in DOMAIN stages[s] : stages[s][i].res = "raised"
Finished(s) == jpc[s] = "done"

\* C1: a job never has two terminal updates (completed or failed), and once
\* its task has finished it has sent exactly one, POSTed once, whichever step
\* failed and whatever became of the deliveries.
C1_ExactlyOneTerminal ==
    \A s \in Subs :
        /\ Cardinality(TerminalSent(s)) <= 1
        /\ Finished(s) =>
              /\ Cardinality(TerminalSent(s)) = 1
              /\ \A i \in TerminalSent(s) : updates[s][i].posts = 1 /\ i = Len(updates[s])

\* A finished job none of whose updates was delivered.
C1_Witness ==
    \E s \in Subs :
        /\ Finished(s)
        /\ Len(updates[s]) >= 2
        /\ lost[s] = Len(updates[s])
        /\ Cardinality(TerminalSent(s)) = 1

\* C2: when download, convert and upload all succeeded, exactly one completed
\* update is sent, with progress 100 and size equal to the byte length of the
\* content PUT to the output URL, and no failed update is sent.
C2_CompletedCarriesUploadedSize ==
    \A s \in Subs :
        (StageRes(s, "download") = "ok" /\ StageRes(s, "convert") = "ok"
            /\ StageRes(s, "upload") = "ok") =>
            /\ Cardinality(Sent(s, "completed")) = 1
            /\ Sent(s, "failed") = {}
            /\ Cardinality(CallsOf(s, "PUT")) = 1
            /\ \A i \in Sent(s, "completed") : \A k \in CallsOf(s, "PUT") :
                   /\ updates[s][i].progress = 100
                   /\ updates[s][i].size = calls[s][k].len

\* A finished job that uploaded a MIDI file of the largest length.
C2_Witness ==
    \E s \in Subs :
        /\ Finished(s)
        /\ StageRes(s, "upload") = "ok"
        /\ \E k \in CallsOf(s, "PUT") : calls[s][k].len = MaxMidiLen
        /\ \E i \in Sent(s, "completed") : updates[s][i].size = MaxMidiLen

\* C3: the stages start in the order download, convert, upload; a stage that
\* raised is the last one started, and from then on there is exactly one
\* failed update, with progress 0 and the message of the stage's exception,
\* and no completed update.
C3_StageFailureReportedOnce ==
    \A s \in Subs :
        /\ Len(stages[s]) <= 3
        /\ \A i \in DOMAIN stages[s] :
               /\ stages[s][i].stage = <<"download", "convert", "upload">>[i]
               /\ stages[s][i].res = "raised" =>
                      /\ i = Len(stages[s])
                      /\ Cardinality(Sent(s, "failed")) = 1
                      /\ Sent(s, "completed") = {}
                      /\ \A k \in Sent(s, "failed") :
                             /\ updates[s][k].progress = 0
                             /\ updates[s][k].message = stages[s][i].exc

\* A finished job whose convert stage produced no MIDI file.
C3_Witness ==
    \E s \in Subs :
        /\ Finished(s)
        /\ StageRes(s, "convert") = "raised"
        /\ StageRes(s, "upload") = "none"
        /\ \E k \in Sent(s, "failed") :
               updates[s][k].message = MsgConversion(MsgNoMidi)

\* C4 as stated: once the task has finished, its temporary directory does not
\* exist.
C4_DirectoryAlwaysRemoved ==
    \A s \in Subs : Finished(s) => temp_dir[s] \notin dirs

\* C4 amended: once the task has finished, rmtree was attempted exactly once
\* on the directory the job made, and the directory and every file in it are
\* gone unless that rmtree raised.
C4_RemovedUnlessRmtreeRaised ==
    \A s \in Subs :
        (Finished(s) /\ temp_dir[s] # NoDir) =>
            /\ Cardinality(CallsOf(s, "rmtree")) = 1
            /\ ~CallRaised(s, "rmtree") =>
                   /\ temp_dir[s] \notin dirs
                   /\ \A f \in files : f.dir # temp_dir[s]

\* A job that failed in upload, with both files written, and whose directory
\* is gone.
C4_Witness ==
    \E s \in Subs :
        /\ Finished(s)
        /\ StageRes(s, "upload") = "raised"
        /\ temp_dir[s] # NoDir
        /\ temp_dir[s] \notin dirs
        /\ ~CallRaised(s, "rmtree")

\* The file name ends, case-insensitively, with one of the supported
\* extensions.
EndsWith(str, suf) ==
    Len(suf) <= Len(str) /\ SubSeq(str, Len(str) - Len(suf) + 1, Len(str)) = suf
EndsWithSupported(file_name) ==
    \E ext \in SUPPORTED_AUDIO_FORMATS : EndsWith(Lower(file_name), ext)

\* C5: a job whose file name does not end with a supported extension never
\* issues a GET, never has a file in its directory, and ends with a failed
\* update and no completed one.
C5_UnsupportedNeverDownloads ==
    \A s \in Subs :
        (req[s] # NoReq /\ ~EndsWithSupported(req[s].fileName)) =>
            /\ CallsOf(s, "GET") = {}
            /\ \A f \in files : f.dir # temp_dir[s]
            /\ Finished(s) =>
                   /\ Cardinality(Sent(s, "failed")) = 1
                   /\ Sent(s, "completed") = {}

\* A finished job whose file name has no extension at all.
C5_Witness ==
    \E s \in Subs :
        /\ Finished(s)
        /\ req[s].fileName = <<"a">>
        /\ temp_dir[s] # NoDir
        /\ StageRes(s, "download") = "raised"
        /\ Sent(s, "failed") # {}

\* C6: a submission whose HEAD failed at network level or was answered with a
\* status outside 200..299 is answered 400, adds no background task, starts no
\* job and sends no status update.
C6_UnreachableInputRejected ==
    \A s \in Subs :
        (hpc[s] = "returned" /\ head[s] # NoAnswer
            /\ (head[s].err = "RequestError"
                   \/ head[s].status < 200 \/ head[s].status > 299)) =>
            /\ resp[s].code = 400
            /\ resp[s].success = FALSE
            /\ tasks[s] = 0
            /\ jpc[s] = "none"
            /\ updates[s] = <<>>
            /\ calls[s] = <<>>

\* A submission rejected because its HEAD failed at network level.
C6_Witness ==
    \E s \in Subs :
        /\ hpc[s] = "returned"
        /\ head[s] = NetErr
        /\ resp[s].code = 400

\* C7: a well-formed submission whose HEAD was answered 200 is answered 202
\* with success true and the submitted jobId, and exactly one background task
\* was added for it.
C7_ReachableInputAccepted ==
    \A s \in Subs :
        (hpc[s] = "returned" /\ head[s] = Answer(200)) =>
            /\ resp[s].code = 202
            /\ resp[s].success = TRUE
            /\ resp[s].jobId = req[s].jobId
            /\ resp[s].jobId \in JobIds
            /\ tasks[s] = 1

\* An accepted submission whose job is waiting to run.
C7_Witness ==
    \E s \in Subs :
        /\ hpc[s] = "returned"
        /\ head[s] = Answer(200)
        /\ resp[s].code = 202
        /\ jpc[s] = "queued"

\* C8: which stages run and which terminal status is chosen depend on the
\* outcome of the steps alone: once the POST of an update is answered the next
\* stage has started whatever the answer, a job fails only if mkdtemp or a
\* stage raised, and a job whose three stages succeeded never sends failed.
C8_DeliveryNeverSteers ==
    \A s \in Subs :
        LET n == Len(stages[s])
        IN  /\ (jpc[s] \notin {"none", "queued", "post10"} /\ ~CallRaised(s, "mkdtemp"))
                   => n >= 1
            /\ (StageRes(s, "download") = "ok" /\ jpc[s] # "post50") => n >= 2
            /\ (StageRes(s, "convert") = "ok" /\ jpc[s] # "post90") => n >= 3
            /\ StageRes(s, "upload") = "ok" =>
                   Sent(s, "failed") = {} /\ Sent(s, "completed") # {}
            /\ Sent(s, "failed") # {} => (CallRaised(s, "mkdtemp") \/ SomeStageRaised(s))

\* A job that completed although none of its four updates was delivered.
C8_Witness ==
    \E s \in Subs :
        /\ Finished(s)
        /\ Sent(s, "completed") # {}
        /\ lost[s] = 4

\* C9: a job exists only for a submission whose handler has already returned
\* the 202 acknowledgement, at every point of the job's run and whether it
\* completes or fails.
C9_AcknowledgedBeforeJobRuns ==
    \A s \in Subs :
        jpc[s] # "none" =>
            /\ hpc[s] = "returned"
            /\ resp[s].code = 202
            /\ resp[s].success = TRUE

\* A job that failed in a stage, acknowledged with 202.
C9_Witness ==
    \E s \in Subs :
        /\ Finished(s)
        /\ SomeStageRaised(s)
        /\ Sent(s, "failed") # {}
        /\ resp[s].code = 202

Progress(s) == [i \in 1..Len(updates[s]) |-> updates[s][i].progress]
NonDecreasing(seq) == \A i \in 1..Len(seq) : \A j \in i..Len(seq) : seq[i] <= seq[j]
AllStagesOk(s) ==
    /\ StageRes(s, "download") = "ok"
    /\ StageRes(s, "convert") = "ok"
    /\ StageRes(s, "upload") = "ok"

\* C11 as stated: in a job whose stages all succeeded the progress values sent
\* are 0, 10, 50, 90, 100.
C11_ProgressStartsAtZero ==
    \A s \in Subs : AllStagesOk(s) => Progress(s) = <<0, 10, 50, 90, 100>>

\* C11 amended: as long as no failed update is sent the progress values never
\* decrease, and in a job whose stages all succeeded they are exactly
\* 10, 50, 90, 100: no update with progress 0 is sent.
C11_ProgressOfDefaultFlow ==
    \A s \in Subs :
        /\ Sent(s, "failed") = {} => NonDecreasing(Progress(s))
        /\ AllStagesOk(s) => Progress(s) = <<10, 50, 90, 100>>

\* A finished job whose stages all succeeded.
C11_Witness ==
    \E s \in Subs :
        /\ Finished(s)
        /\ AllStagesOk(s)
        /\ Len(updates[s]) = 4
        /\ updates[s][1].progress = 10

\* What belongs to the job of submission s alone, and the files of a
\* directory.
Own(s) ==
    <<hpc[s], req[s], resp[s], tasks[s], jpc[s], temp_dir[s], loc[s], updates[s],
      lost[s], stages[s], calls[s], head[s]>>
FilesIn(dir) == {f \in files : f.dir = dir}
HasFile(path, len) == \E f \in files : Path(f.dir, f.name) = path /\ f.len = len

\* Two jobs never hold the same temporary directory.
DistinctDirs ==
    \A s \in Pair : \A t \in Pair :
        (s # t /\ temp_dir[s] # NoDir /\ temp_dir[t] # NoDir) => temp_dir[s] # temp_dir[t]

\* A job finds its directory and the files it wrote for as long as it runs:
\* the directory until the task is over, the downloaded audio from the end of
\* the download, the MIDI file with the size it measured from the conversion.
WorkingFilesKept ==
    \A s \in Pair :
        /\ (temp_dir[s] # NoDir /\ ~Finished(s)) => temp_dir[s] \in dirs
        /\ jpc[s] \in {"post50", "post90", "put", "postC"} =>
               HasFile(loc[s].audio_file_path, AudioLen)
        /\ jpc[s] \in {"post90", "put", "postC"} => Exists(loc[s].midi_file_path)
        /\ jpc[s] \in {"put", "postC"} =>
               HasFile(loc[s].midi_file_path, loc[s].midi_file_size)

\* A step of one job leaves the other job's state, its stages and updates
\* among them, its directory and its files as they are.
OneJobPerStep ==
    \A s \in Pair : \A t \in Pair :
        (s # t /\ Own(t)' # Own(t)) =>
            /\ Own(s)' = Own(s)
            /\ FilesIn(temp_dir[s])' = FilesIn(temp_dir[s])
            /\ (temp_dir[s] \in dirs') <=> (temp_dir[s] \in dirs)

\* C12: for every interleaving of two jobs, with the same jobId or not, the
\* two temporary directories are distinct, each job keeps its directory and
\* files while it runs, and a step of one job (a failure or the cleanup
\* included) changes nothing of the other job: not its files, not its
\* directory, not its stages or status updates.
C12_JobsIsolated ==
    /\ [](DistinctDirs /\ WorkingFilesKept)
    /\ [][OneJobPerStep]_vars

\* Two jobs with the same jobId: one has failed and removed its directory
\* while the other, past its conversion, still has both its files.
C12_Witness ==
    \E s \in Pair : \E t \in Pair :
        /\ s # t
        /\ req[s].jobId = req[t].jobId
        /\ Finished(s)
        /\ Sent(s, "failed") # {}
        /\ FilesIn(temp_dir[s]) = {}
        /\ CallRaised(s, "PUT")
        /\ ~CallRaised(s, "rmtree")
        /\ jpc[t] = "put"
        /\ Cardinality(FilesIn(temp_dir[t])) = 2

\* C13 as stated, in its final state: every finished job has attempted the
\* removal of a temporary directory.
C13_RemovalAlwaysAttempted ==
    \A s \in Subs : Finished(s) => CallsOf(s, "rmtree") # {}

\* The end of a task: one terminal update was sent, and when mkdtemp had made
\* a directory its removal was the last call; no removal is attempted before
\* the terminal update is sent.
EndsInOrder ==
    \A s \in Subs :
        /\ Finished(s) =>
               /\ Cardinality(TerminalSent(s)) = 1
               /\ temp_dir[s] # NoDir => calls[s][Len(calls[s])].op = "rmtree"
        /\ CallsOf(s, "rmtree") # {} => (Finished(s) /\ TerminalSent(s) # {})

\* C13 amended: provided every external call returns or raises, every job
\* that was scheduled eventually finishes, having sent its terminal update and
\* then, when mkdtemp had made a directory, attempted its removal; a job whose
\* mkdtemp raised attempts no removal.
C13_ScheduledJobsTerminate ==
    /\ <>[](\A s \in Subs : jpc[s] # "none" => Finished(s))
    /\ []EndsInOrder

\* A finished job that completed and then attempted the removal.
C13_Witness ==
    \E s \in Subs :
        /\ Finished(s)
        /\ Sent(s, "completed") # {}
        /\ calls[s][Len(calls[s])].op = "rmtree"

\* ---------------------------------------------------------------- C14
\* The updates of s as <<status, progress>> pairs, in sending order.
Kinds(s) == [i \in 1..Len(updates[s]) |-> <<updates[s][i].status, updates[s][i].progress>>]
ProcessingUpdates == << <<"processing", 10>>, <<"processing", 50>>, <<"processing", 90>> >>
TerminalKinds == { <<"completed", 100>>, <<"failed", 0>> }
StageOrder == <<"download", "convert", "upload">>
StagesOf(s) == {stages[s][i].stage : i \in DOMAIN stages[s]}

\* A prefix of ProcessingUpdates, then at most one terminal update (exactly
\* one once the job has finished), then nothing.
PrefixThenTerminal(s) ==
    LET n == Cardinality(Sent(s, "processing"))
    IN  /\ n <= 3
        /\ \A i \in 1..n : i <= Len(updates[s]) /\ Kinds(s)[i] = ProcessingUpdates[i]
        /\ Len(updates[s]) \in {n, n + 1}
        /\ Len(updates[s]) = n + 1 => Kinds(s)[n + 1] \in TerminalKinds
        /\ Finished(s) => Len(updates[s]) = n + 1

\* The k-th stage has started only if the k-th processing update was sent.
AnnouncedStages(s) ==
    \A k \in 1..3 :
        StageOrder[k] \in StagesOf(s) =>
            /\ Len(updates[s]) >= k
            /\ Kinds(s)[k] = ProcessingUpdates[k]

\* A step that starts the k-th stage of s finds its update already sent.
AnnouncedBefore ==
    \A s \in Subs : \A k \in 1..3 :
        (StageOrder[k] \in StagesOf(s)' /\ StageOrder[k] \notin StagesOf(s)) =>
            /\ Len(updates[s]) >= k
            /\ Kinds(s)[k] = ProcessingUpdates[k]

\* The failed update of s comes right after an update of higher progress.
DropsToZero(s) ==
    LET n == Len(updates[s])
    IN  /\ n >= 2
        /\ updates[s][n].progress = 0
        /\ updates[s][n - 1].progress > 0

\* C14 as stated, in its last clause: every job that failed reported a higher
\* progress value before its failed update.
C14_EveryFailureDropsToZero ==
    \A s \in Subs : (Finished(s) /\ Sent(s, "failed") # {}) => DropsToZero(s)

\* C14 amended: the updates of a job are a prefix of processing/10,
\* processing/50, processing/90 followed by exactly one terminal update and
\* nothing after it; each processing update is sent before its stage starts; a
\* job rejected for an unsupported extension sends processing/10 and then
\* failed/0; a failed job whose temporary directory was made drops to progress
\* 0 after a higher value, while one whose mkdtemp raised sends failed/0 alone.
C14_UpdateSequence ==
    /\ [](\A s \in Subs :
            /\ PrefixThenTerminal(s)
            /\ AnnouncedStages(s)
            /\ (Finished(s) /\ Sent(s, "failed") # {}) =>
                   IF temp_dir[s] # NoDir
                   THEN DropsToZero(s)
                   ELSE Kinds(s) = << <<"failed", 0>> >>
            /\ (Finished(s) /\ temp_dir[s] # NoDir
                    /\ ~EndsWithSupported(req[s].fileName)) =>
                   Kinds(s) = << <<"processing", 10>>, <<"failed", 0>> >>)
    /\ [][AnnouncedBefore]_vars

\* A finished job whose upload raised: processing/10, /50, /90, then failed/0.
C14_Witness ==
    \E s \in Subs :
        /\ Finished(s)
        /\ StageRes(s, "upload") = "raised"
        /\ Kinds(s) = ProcessingUpdates \o << <<"failed", 0>> >>

\* ---------------------------------------------------------------- C15
\* C15: a well-formed submission is accepted with 202 exactly when the HEAD of
\* its input URL succeeded, whatever the output URL will answer; the output
\* URL is first contacted by the upload PUT, and when that PUT fails (network
\* error or a status outside 2xx) the submission had been accepted with 202,
\* its download and convert stages ran successfully, and the failure shows only
\* as the failed update, sent after processing/90 and carrying str(e).
C15_OutputUrlNotValidated ==
    \A s \in Subs :
        /\ (hpc[s] = "returned" /\ head[s] # NoAnswer) =>
               /\ resp[s].code = 202 <=> HttpCall(head[s]) = "ok"
               /\ resp[s].code = 202 <=> jpc[s] # "none"
        /\ jpc[s] = "put" =>
               /\ Sent(s, "failed") = {}
               /\ resp[s] = SuccessResponse(req[s].jobId)
        /\ CallRaised(s, "PUT") =>
               /\ resp[s] = SuccessResponse(req[s].jobId)
               /\ StageRes(s, "download") = "ok"
               /\ StageRes(s, "convert") = "ok"
               /\ StageRes(s, "upload") = "raised"
               /\ Kinds(s) = ProcessingUpdates \o << <<"failed", 0>> >>
               /\ updates[s][4].message \in {MsgRequestError, MsgStatusError}
               /\ Sent(s, "completed") = {}

\* An accepted submission whose output URL was unreachable: the job finished
\* with the failed update of the upload.
C15_Witness ==
    \E s \in Subs :
        /\ Finished(s)
        /\ resp[s].code = 202
        /\ CallRaised(s, "PUT")
        /\ updates[s][Len(updates[s])].status = "failed"
        /\ updates[s][Len(updates[s])].message = MsgRequestError

====
